---- MODULE Spec2Model ----
(***************************************************************************)
(* trippy: a toy-language compiler.                                        *)
(*                                                                         *)
(*   parser/src/lib.rs        the chumsky parser (value, parser)           *)
(*   compiler-core/src/lib.rs the Cranelift IR builder (compile and the    *)
(*                            translate functions) and parse               *)
(*   compiler/src/main.rs     the LLVM driver (parse, build, main)         *)
(*                                                                         *)
(* The source text is modelled as the sequence of its lexical units with   *)
(* insignificant whitespace removed: one unit per punctuation character,   *)
(* quote character, escape sequence, identifier, number, or run of plain   *)
(* string characters.                                                      *)
(***************************************************************************)
EXTENDS Integers, Sequences, FiniteSets, TLC

VARIABLES
    src,      \* the source text handed to parse, as lexical units
    srcAst,   \* the tree the source was printed from, <<>> when from none
    drv,      \* the driver: main, parse and build of compiler/src/main.rs
    checks,   \* whether FunctionBuilder checks its arguments (a debug build)
    jit,      \* the JIT value of compiler-core
    fb,       \* the function compile is building
    prog,     \* the ast argument of the running compile
    todo,     \* the statements compile has still to lower
    cpc,      \* where compile is
    run,      \* the execution of the compiled main
    ncompile, \* the calls of compile on the JIT value so far
    ndata,    \* the calls of create_data on the JIT value so far
    dv        \* a call of declare_variables on a builder of its own

vars == <<src, srcAst, drv, checks, jit, fb, prog, todo, cpc, run, ncompile, ndata, dv>>

parseVars == <<src, srcAst, drv>>

compileVars == <<checks, jit, fb, prog, todo, cpc, run, ncompile, ndata, dv>>

(***************************************************************************)
(* Bounds of the model.                                                    *)
(***************************************************************************)
\* longest raw unit sequence enumerated exhaustively as parser input
MaxRawLen == 2
\* most top-level statements of a program printed from a tree
MaxStmts == 2
\* the longest ast handed to compile
MaxAstLen == 2
\* the calls of compile on one JIT value
MaxCompiles == 2
\* the calls of create_data on one JIT value
MaxCreateData == 2
\* the longest parameter list and statement list of declare_variables
MaxDeclared == 2

(***************************************************************************)
(* Lexical units.                                                          *)
(***************************************************************************)
DQ == "\""
SQ == "'"
QuoteToks == {DQ, SQ}
\* \uXXXX naming no character (a lone surrogate), and a valid escape
BadUnicode == "\\uD800"
GoodEscapes == {"\\n"}
Backslash == "\\"
IdentToks ==
    {"while", "let", "const", "true", "false", "x", "i", "console", "log",
     "loadExternalFunction"}
NumToks == {"0", "1", "123.456", "9223372036854775808"}
PunctToks == {"(", ")", "{", "}", ";", "=", ",", ".", ":"}
PlainToks == {"Hello world", "%f", "abc", "puts", "i32"}
EOF == "<eof>"

Tok(s, i) == IF i >= 1 /\ i <= Len(s) THEN s[i] ELSE EOF

(***************************************************************************)
(* f64 values.  A literal is hi * 2^63 + lo + frac/1000 with small hi, lo  *)
(* and frac, so that the i64 range is representable in 32-bit integers.    *)
(* frac has the sign of lo.                                                *)
(***************************************************************************)
F64(hi, lo, frac) == [hi |-> hi, lo |-> lo, frac |-> frac]

\* str::parse::<f64> of a numeric unit
ParseF64(t) ==
    CASE t = "0" -> F64(0, 0, 0)
      [] t = "1" -> F64(0, 1, 0)
      [] t = "123.456" -> F64(0, 123, 456)
      [] t = "9223372036854775808" -> F64(1, 0, 0)
      [] OTHER -> F64(0, 0, 0)

(***************************************************************************)
(* Instruction (parser/src/lib.rs:11-32) as tagged records.  A name is the *)
(* sequence of the pieces whose concatenation is the string.               *)
(***************************************************************************)
StringLiteral(s) == [tag |-> "StringLiteral", s |-> s]
NumericLiteral(v) == [tag |-> "NumericLiteral", v |-> v]
BooleanLiteral(b) == [tag |-> "BooleanLiteral", b |-> b]
FunctionCall(name, args) == [tag |-> "FunctionCall", name |-> name, args |-> args]
ArrayI(items) == [tag |-> "Array", items |-> items]
ObjectI(members) == [tag |-> "Object", members |-> members]
VariableI(scope, name, value) ==
    [tag |-> "Variable", scope |-> scope, name |-> name, value |-> value]
VariableReference(name) == [tag |-> "VariableReference", name |-> name]
WhileBlock(condition, body) ==
    [tag |-> "WhileBlock", condition |-> condition, body |-> body]

(***************************************************************************)
(* Parser results.  A combinator either fails, or succeeds at a position   *)
(* with an output and the diagnostics emitted (validate) on the way.       *)
(* Diagnostics of an alternative that fails inside choice/or, or of the    *)
(* last, failed iteration of repeated, are dropped by chumsky, so a        *)
(* failure carries none.                                                   *)
(***************************************************************************)
POk(pos, out, errs) == [ok |-> TRUE, pos |-> pos, out |-> out, errs |-> errs]
PFail == [ok |-> FALSE, pos |-> 0, out |-> <<>>, errs |-> <<>>]

CustomDiag == [kind |-> "custom", msg |-> "invalid unicode character"]
UnexpectedDiag == [kind |-> "unexpected", msg |-> ""]

\* the character an escape unit stands for
Unescape(t) == IF t = "\\n" THEN "<LF>" ELSE "<U+FFFD>"

\* filter(c != '\\' && c != '"' && c != '\'').or(escape).repeated()
RECURSIVE StringChars(_, _, _, _)
StringChars(s, i, acc, errs) ==
    LET t == Tok(s, i) IN
    IF t = EOF \/ t \in QuoteToks \/ t = Backslash
    THEN POk(i, acc, errs)
    ELSE IF t = BadUnicode
    THEN StringChars(s, i + 1, Append(acc, Unescape(t)), Append(errs, CustomDiag))
    ELSE IF t \in GoodEscapes
    THEN StringChars(s, i + 1, Append(acc, Unescape(t)), errs)
    ELSE StringChars(s, i + 1, Append(acc, t), errs)

\* the closing quote after the characters r of a string opened at i
\* (the mutant: it must be the opening one)
StringCloseSame(s, i, r) ==
    IF Tok(s, r.pos) = Tok(s, i) THEN POk(r.pos + 1, r.out, r.errs) ELSE PFail

\* .delimited_by(quote, quote), quote = choice((just('"'), just('\''))): the
\* closing quote after the characters r of a string opened at i
StringClose(s, i, r) ==
    IF Tok(s, r.pos) \in QuoteToks THEN POk(r.pos + 1, r.out, r.errs) ELSE PFail

\* string: filter(..).or(escape).repeated().delimited_by(quote, quote)
String(s, i) ==
    IF Tok(s, i) \in QuoteToks
    THEN StringClose(s, i, StringChars(s, i + 1, <<>>, <<>>))
    ELSE PFail

\* text::ident().separated_by(just('.')) ... .map(|v| v.join(".")): zero or
\* more identifiers; a '.' not followed by an identifier is not consumed
RECURSIVE IdentPath(_, _, _)
IdentPath(s, i, acc) ==
    IF acc = <<>>
    THEN IF Tok(s, i) \in IdentToks THEN IdentPath(s, i + 1, <<Tok(s, i)>>)
         ELSE POk(i, <<>>, <<>>)
    ELSE IF Tok(s, i) = "." /\ Tok(s, i + 1) \in IdentToks
         THEN IdentPath(s, i + 2, acc \o <<".", Tok(s, i + 1)>>)
         ELSE POk(i, acc, <<>>)

\* BTreeMap::collect of the members: one entry per key, the last one wins
RECURSIVE CollectMap(_, _)
CollectMap(ms, acc) ==
    IF ms = <<>> THEN acc
    ELSE CollectMap(Tail(ms),
                    Append(SelectSeq(acc, LAMBDA e : e.key # Head(ms).key), Head(ms)))

RECURSIVE Value(_, _), ValueArgs(_, _, _, _), ValueArgsNext(_, _, _, _, _)
RECURSIVE Member(_, _), MemberValue(_, _), MembersNext(_, _, _, _, _)
RECURSIVE Members(_, _, _, _), FnCall(_, _), FnCallArgs(_, _), Object(_, _)
RECURSIVE VariableP(_, _), ValueFn(_, _, _), ValueObject(_, _, _)
RECURSIVE ValueVariable(_, _, _), ValueString(_, _, _), ObjectMembers(_, _, _)

\* value.padded().separated_by(just(',')).allow_trailing() from position i
ValueArgs(s, i, acc, errs) == ValueArgsNext(s, i, acc, errs, Value(s, i))

ValueArgsNext(s, i, acc, errs, v) ==
    IF ~v.ok THEN POk(i, acc, errs)
    ELSE IF Tok(s, v.pos) = ","
         THEN ValueArgs(s, v.pos + 1, Append(acc, v.out), errs \o v.errs)
         ELSE POk(v.pos, Append(acc, v.out), errs \o v.errs)

\* the key of a member: choice((string, text::ident()))
MemberKey(s, i, str) ==
    IF str.ok THEN str
    ELSE IF Tok(s, i) \in IdentToks THEN POk(i + 1, <<Tok(s, i)>>, <<>>)
    ELSE PFail

\* key, then ':' and the value
MemberEntry(k, v) ==
    IF v.ok THEN POk(v.pos, [key |-> k.out, val |-> v.out], k.errs \o v.errs)
    ELSE PFail

MemberValue(s, k) ==
    IF k.ok /\ Tok(s, k.pos) = ":" THEN MemberEntry(k, Value(s, k.pos + 1)) ELSE PFail

\* member: choice((string, text::ident())) ':' value
Member(s, i) == MemberValue(s, MemberKey(s, i, String(s, i)))

\* member.chain(just(',').ignore_then(member).repeated())
Members(s, i, acc, errs) ==
    IF Tok(s, i) = "," THEN MembersNext(s, i, acc, errs, Member(s, i + 1))
    ELSE POk(i, acc, errs)

MembersNext(s, i, acc, errs, m) ==
    IF m.ok THEN Members(s, m.pos, Append(acc, m.out), errs \o m.errs)
    ELSE POk(i, acc, errs)

\* the arguments a of a call named n.out, closed by ')'
FnCallClose(s, n, a) ==
    IF Tok(s, a.pos) = ")" THEN POk(a.pos + 1, FunctionCall(n.out, a.out), a.errs)
    ELSE PFail

FnCallArgs(s, n) ==
    IF Tok(s, n.pos) = "(" THEN FnCallClose(s, n, ValueArgs(s, n.pos + 1, <<>>, <<>>))
    ELSE PFail

\* fn_call: ident ('.' ident)* '(' args ')'
FnCall(s, i) == FnCallArgs(s, IdentPath(s, i, <<>>))

ObjectClose(s, ms) ==
    IF Tok(s, ms.pos) = "}" THEN POk(ms.pos + 1, ObjectI(CollectMap(ms.out, <<>>)), ms.errs)
    ELSE PFail

ObjectMembers(s, i, first) ==
    IF first.ok THEN ObjectClose(s, Members(s, first.pos, <<first.out>>, first.errs))
    ELSE ObjectClose(s, POk(i, <<>>, <<>>))

\* object: '{' (member (',' member)*)? '}'
Object(s, i) ==
    IF Tok(s, i) = "{" THEN ObjectMembers(s, i + 1, Member(s, i + 1)) ELSE PFail

VariableValue(s, i, v) ==
    IF v.ok
    THEN POk(v.pos,
             VariableI(IF Tok(s, i) = "let" THEN "Let" ELSE "Const", <<Tok(s, i + 1)>>, v.out),
             v.errs)
    ELSE PFail

\* variable: ("let" | "const") ident '=' value
VariableP(s, i) ==
    IF Tok(s, i) \in {"let", "const"} /\ Tok(s, i + 1) \in IdentToks /\ Tok(s, i + 2) = "="
    THEN VariableValue(s, i, Value(s, i + 3))
    ELSE PFail

\* value: choice((string_literal, num_literal, bool_literal, fn_call, object,
\* variable, variable_reference)), the first alternative that succeeds
Value(s, i) == ValueString(s, i, String(s, i))

ValueString(s, i, str) ==
    IF str.ok THEN POk(str.pos, StringLiteral(str.out), str.errs)
    ELSE IF Tok(s, i) \in NumToks
    THEN POk(i + 1, NumericLiteral(ParseF64(Tok(s, i))), <<>>)
    ELSE IF Tok(s, i) \in {"true", "false"}
    THEN POk(i + 1, BooleanLiteral(Tok(s, i) = "true"), <<>>)
    ELSE ValueFn(s, i, FnCall(s, i))

ValueFn(s, i, f) == IF f.ok THEN f ELSE ValueObject(s, i, Object(s, i))

ValueObject(s, i, o) == IF o.ok THEN o ELSE ValueVariable(s, i, VariableP(s, i))

ValueVariable(s, i, v) ==
    IF v.ok THEN v
    ELSE IF Tok(s, i) \in IdentToks THEN POk(i + 1, VariableReference(<<Tok(s, i)>>), <<>>)
    ELSE PFail

\* value().then_ignore(just(';').or_not()).padded().repeated()
RECURSIVE Statements(_, _, _, _), StatementsNext(_, _, _, _, _)
Statements(s, i, acc, errs) == StatementsNext(s, i, acc, errs, Value(s, i))

StatementsNext(s, i, acc, errs, v) ==
    IF ~v.ok THEN POk(i, acc, errs)
    ELSE Statements(s, IF Tok(s, v.pos) = ";" THEN v.pos + 1 ELSE v.pos,
                    Append(acc, v.out), errs \o v.errs)

BlockClose(s, b) ==
    IF Tok(s, b.pos) = "}" THEN POk(b.pos + 1, b.out, b.errs) ELSE PFail

\* block: (value ';'?)* .or_not().delimited_by(just('{'), just('}'))
Block(s, i) ==
    IF Tok(s, i) = "{" THEN BlockClose(s, Statements(s, i + 1, <<>>, <<>>)) ELSE PFail

WhileBody(c, b) ==
    IF b.ok THEN POk(b.pos, WhileBlock(c.out, b.out), c.errs \o b.errs) ELSE PFail

WhileCondition(s, c) ==
    IF c.ok /\ Tok(s, c.pos) = ")" THEN WhileBody(c, Block(s, c.pos + 1)) ELSE PFail

\* while_block: "while" '(' value ')' block
WhileBlockP(s, i) ==
    IF Tok(s, i) = "while" /\ Tok(s, i + 1) = "(" THEN WhileCondition(s, Value(s, i + 2))
    ELSE PFail

ExprStatement(s, v) ==
    IF v.ok THEN POk(IF Tok(s, v.pos) = ";" THEN v.pos + 1 ELSE v.pos, v.out, v.errs)
    ELSE PFail

WhileOrExpr(s, i, w) == IF w.ok THEN w ELSE ExprStatement(s, Value(s, i))

\* the mutant: the grammar as documented, statement := while_block | expr ';'?
TopStatementOrValue(s, i) == WhileOrExpr(s, i, WhileBlockP(s, i))

\* the item of the top-level repetition: while_block alone, the alternative
\* .or(value().then_ignore(just(';').or_not())) being commented out
TopStatement(s, i) == WhileBlockP(s, i)

RECURSIVE TopRepeated(_, _, _, _), TopRepeatedNext(_, _, _, _, _)
TopRepeated(s, i, acc, errs) == TopRepeatedNext(s, i, acc, errs, TopStatement(s, i))

TopRepeatedNext(s, i, acc, errs, w) ==
    IF ~w.ok THEN POk(i, acc, errs)
    ELSE TopRepeated(s, w.pos, Append(acc, w.out), errs \o w.errs)

\* .then_ignore(end()) after the repetition r
ParseEnd(s, r) ==
    IF r.pos = Len(s) + 1
    THEN [some |-> TRUE, tree |-> r.out, errs |-> r.errs]
    ELSE [some |-> FALSE, tree |-> <<>>, errs |-> Append(r.errs, UnexpectedDiag)]

\* parser().parse_recovery(src): (Some(tree), errs) or (None, errs); no
\* recovery strategy is installed, so a failure yields no tree, and errs is
\* the diagnostics emitted so far followed by the failure
ParseRecovery(s) == ParseEnd(s, TopRepeated(s, 1, <<>>, <<>>))

(***************************************************************************)
(* The inputs of the parser: every short sequence of units, the sources    *)
(* printed from small trees by the grammar of the language, and the        *)
(* scenarios of the documentation and tests.                               *)
(***************************************************************************)
RawAlphabet == {"while", "(", ")", "{", "}", "x", DQ, SQ, "abc", ";", "1", BadUnicode}

RECURSIVE SeqsUpTo(_, _)
SeqsUpTo(S, n) ==
    IF n = 0 THEN {<<>>}
    ELSE LET shorter == SeqsUpTo(S, n - 1) IN
         shorter \cup {Append(q, t) : q \in shorter, t \in S}

ConsoleLog == <<"console", ".", "log">>

\* the statements programs are printed from
LoadExternalFunction == <<"loadExternalFunction">>

StmtForms ==
    { FunctionCall(ConsoleLog, <<StringLiteral(<<"Hello world">>)>>),
      FunctionCall(ConsoleLog, <<StringLiteral(<<"%f">>), VariableReference(<<"x">>)>>),
      VariableI("Let", <<"x">>, NumericLiteral(F64(0, 123, 456))),
      VariableI("Const", <<"i">>, NumericLiteral(F64(0, 0, 0))),
      VariableI("Let", <<"log">>,
                FunctionCall(LoadExternalFunction,
                             <<StringLiteral(<<"puts">>), StringLiteral(<<"i32">>)>>)),
      FunctionCall(<<"log">>, <<StringLiteral(<<"Hello world">>)>>),
      VariableReference(<<"x">>),
      BooleanLiteral(TRUE),
      WhileBlock(VariableReference(<<"i">>), <<>>),
      WhileBlock(BooleanLiteral(TRUE), <<VariableReference(<<"x">>)>>) }

RECURSIVE Unparse(_, _), UnparseList(_, _, _)
\* the surface form of a tree under the grammar; semi: statements end in ';'
Unparse(n, semi) ==
    CASE n.tag = "StringLiteral" -> <<DQ>> \o n.s \o <<DQ>>
      [] n.tag = "NumericLiteral" ->
            <<CHOOSE t \in NumToks : ParseF64(t) = n.v>>
      [] n.tag = "BooleanLiteral" -> <<IF n.b THEN "true" ELSE "false">>
      [] n.tag = "VariableReference" -> n.name
      [] n.tag = "Variable" ->
            <<IF n.scope = "Let" THEN "let" ELSE "const">> \o n.name \o <<"=">>
                \o Unparse(n.value, semi)
      [] n.tag = "FunctionCall" ->
            n.name \o <<"(">> \o UnparseList(n.args, <<",">>, semi) \o <<")">>
      [] n.tag = "WhileBlock" ->
            <<"while", "(">> \o Unparse(n.condition, semi) \o <<")", "{">>
                \o UnparseList(n.body, IF semi THEN <<";">> ELSE <<>>, semi) \o <<"}">>
      [] OTHER -> <<>>

\* the items printed in order, sep between two of them
UnparseList(items, sep, semi) ==
    IF items = <<>> THEN <<>>
    ELSE IF Len(items) = 1 THEN Unparse(items[1], semi)
    ELSE Unparse(Head(items), semi) \o sep \o UnparseList(Tail(items), sep, semi)

RECURSIVE UnparseProgram(_, _)
UnparseProgram(stmts, semi) ==
    IF stmts = <<>> THEN <<>>
    ELSE Unparse(Head(stmts), semi)
            \o (IF semi /\ Head(stmts).tag # "WhileBlock" THEN <<";">> ELSE <<>>)
            \o UnparseProgram(Tail(stmts), semi)

Programs == SeqsUpTo(StmtForms, MaxStmts) \ {<<>>}

\* let i = 0; while (i) { i = 0 }
S3Source == <<"let", "i", "=", "0", ";", "while", "(", "i", ")", "{", "i", "=", "0", "}">>

\* a while loop in the body of a while loop
NestedWhileSource ==
    <<"while", "(", "x", ")", "{", "while", "(", "i", ")", "{", "}", "}">>

\* a string opened by a double quote and closed by a single quote
MixedQuoteSource == <<"while", "(", DQ, "abc", SQ, ")", "{", "}">>

ScenarioSources ==
    { <<"console", ".", "log", "(", DQ, "Hello world", DQ, ")">>,
      <<"let", "x", "=", "123.456", ";",
        "console", ".", "log", "(", DQ, "%f", DQ, ",", "x", ")", ";">>,
      S3Source,
      <<"while", "(", DQ, BadUnicode, DQ, ")", "{", "}", "x">>,
      <<"while", "(", DQ, BadUnicode, DQ, ")", "{", BadUnicode, "}">>,
      <<"while", "(", DQ, BadUnicode, DQ, ")", "{", "}">>,
      NestedWhileSource,
      MixedQuoteSource,
      <<"while", "(", "9223372036854775808", ")", "{", "}">>,
      <<DQ, "abc">> }

(***************************************************************************)
(* The driver: main and parse of compiler/src/main.rs (parse is the same   *)
(* function in compiler-core/src/lib.rs and compiler/src/lib.rs).          *)
(***************************************************************************)
DrvInit ==
    [pc |-> "main", some |-> FALSE, tree |-> <<>>, errs |-> <<>>, reported |-> <<>>,
     exit |-> -1, built |-> 0, llvmVars |-> {}, llvmFns |-> {}, entry |-> <<>>, tail |-> 0,
     ran |-> FALSE]

\* the mutant: leave as soon as there is no tree
ReportsDoneEarly(d) == ~d.some \/ Len(d.reported) = Len(d.errs)

\* errs.into_iter().for_each(..) has run to its end
ReportsDone(d) == Len(d.reported) = Len(d.errs)

DParsed(d, r) ==
    [d EXCEPT !.pc = "report", !.some = r.some, !.tree = r.tree, !.errs = r.errs]

\* let (ast, errs) = parser().parse_recovery(src.trim());
DParse ==
    /\ drv.pc = "main"
    /\ drv' = DParsed(drv, ParseRecovery(src))
    /\ UNCHANGED <<src, srcAst, compileVars>>

\* one turn of the for_each: report.finish().print(..)
DReport ==
    /\ drv.pc = "report"
    /\ Len(drv.reported) < Len(drv.errs)
    /\ drv' = [drv EXCEPT !.reported = Append(@, drv.errs[Len(drv.reported) + 1])]
    /\ UNCHANGED <<src, srcAst, compileVars>>

\* if ast.is_none() { std::process::exit(1); }
DExit ==
    /\ drv.pc = "report"
    /\ ReportsDone(drv)
    /\ ~drv.some
    /\ drv' = [drv EXCEPT !.pc = "exited", !.exit = 1]
    /\ UNCHANGED <<src, srcAst, compileVars>>

\* build(ast, module_name) called on a tree directly, as a test does with
\* the tree it expects of parse
DBuildCall ==
    /\ drv.pc = "main"
    /\ srcAst # <<>>
    /\ drv' = [drv EXCEPT !.pc = "build", !.some = TRUE, !.tree = srcAst[1]]
    /\ UNCHANGED <<src, srcAst, compileVars>>

\* ast.unwrap(), back in main
DReturn ==
    /\ drv.pc = "report"
    /\ ReportsDone(drv)
    /\ drv.some
    /\ drv' = [drv EXCEPT !.pc = "build"]
    /\ UNCHANGED <<src, srcAst, compileVars>>

\* create_llvm_type: the type names it knows
LlvmTypeNames == {<<"i8">>, <<"i32">>, <<"f64">>, <<"string">>, <<"boolean">>}

\* the Variable instruction binds a function loaded by name
LoadsFunction(ins) ==
    /\ ins.value.tag = "FunctionCall"
    /\ ins.value.name = LoadExternalFunction
    /\ Len(ins.value.args) >= 2
    /\ \A k \in 1..Len(ins.value.args) : ins.value.args[k].tag = "StringLiteral"
    /\ \A k \in 2..Len(ins.value.args) : ins.value.args[k].s \in LlvmTypeNames

\* whether build lowers the instruction or panics on it; known: the names
\* bound so far, fns: those of them bound to a loaded function
BuildAccepts(ins, known, fns) ==
    CASE ins.tag = "Variable" ->
            \/ ins.value.tag \in {"StringLiteral", "NumericLiteral"}
            \/ LoadsFunction(ins)
      [] ins.tag = "FunctionCall" ->
            /\ ins.name \in fns
            /\ \A k \in 1..Len(ins.args) :
                  \/ ins.args[k].tag = "StringLiteral"
                  \/ ins.args[k].tag = "VariableReference" /\ ins.args[k].name \in known
      [] OTHER -> FALSE

\* the builder builds an instruction: it goes in front of the instruction
\* the builder is positioned before, the first of the last d.tail ones, or
\* at the end of the entry block when d.tail = 0.  stmt: the turn of build's
\* loop that builds it
Build(d, op) ==
    [d EXCEPT !.entry = SubSeq(@, 1, Len(@) - d.tail)
                            \o <<[op |-> op, stmt |-> d.built + 1]>>
                            \o SubSeq(@, Len(@) - d.tail + 1, Len(@))]

\* the mutant: the slot is built where the builder stands
PositionKept(d) == d

\* match entry_basic_block.get_first_instruction(): position_before the
\* first instruction, or position_at_end of the empty block
PositionForAlloca(d) == [d EXCEPT !.tail = Len(d.entry)]

\* the Variable arm: the alloca at the top of the entry block, and the store
\* (a second alloca and the store for a loaded function) after it
BuildVariable(d, ins) ==
    IF LoadsFunction(ins)
    THEN [Build(Build(Build(PositionForAlloca(d), "alloca"), "alloca"), "store")
          EXCEPT !.llvmVars = @ \cup {ins.name}, !.llvmFns = @ \cup {ins.name}]
    ELSE [Build(Build(PositionForAlloca(d), "alloca"), "store")
          EXCEPT !.llvmVars = @ \cup {ins.name}, !.llvmFns = @ \ {ins.name}]

RECURSIVE BuildArgs(_, _, _)
\* create_llvm_args: a load for a variable, a constant for a string
BuildArgs(d, args, k) ==
    IF k > Len(args) THEN d
    ELSE BuildArgs(IF args[k].tag = "VariableReference" THEN Build(d, "load") ELSE d,
                   args, k + 1)

\* the FunctionCall arm: the load of the bound function, the arguments, the
\* call
BuildFunctionCall(d, ins) == Build(BuildArgs(Build(d, "load"), ins.args, 1), "call")

BuildInstruction(d, ins) ==
    [(IF ins.tag = "Variable" THEN BuildVariable(d, ins) ELSE BuildFunctionCall(d, ins))
     EXCEPT !.built = @ + 1]

\* one turn of build's loop over the instructions
DBuildStep ==
    /\ drv.pc = "build"
    /\ drv.built < Len(drv.tree)
    /\ IF BuildAccepts(drv.tree[drv.built + 1], drv.llvmVars, drv.llvmFns)
       THEN drv' = BuildInstruction(drv, drv.tree[drv.built + 1])
       ELSE drv' = [drv EXCEPT !.pc = "panicked", !.exit = 101]
    /\ UNCHANGED <<src, srcAst, compileVars>>

\* module.verify(): the entry block ends with its only terminator
Verified(entry) ==
    /\ entry # <<>>
    /\ \A k \in 1..Len(entry) : entry[k].op = "ret" <=> k = Len(entry)

DVerified(d) ==
    IF Verified(d.entry) THEN [d EXCEPT !.pc = "done", !.ran = TRUE, !.exit = 0]
    ELSE [d EXCEPT !.pc = "exited", !.exit = 1]

\* build_return, verify, and the call of the compiled main
DRun ==
    /\ drv.pc = "build"
    /\ drv.built = Len(drv.tree)
    /\ drv' = DVerified(Build(drv, "ret"))
    /\ UNCHANGED <<src, srcAst, compileVars>>

(***************************************************************************)
(* The Cranelift IR builder of compiler-core/src/lib.rs.                   *)
(*                                                                         *)
(* The lowering state st is the JIT (the symbol table, the module's        *)
(* declarations, the data objects, the staging buffer) together with the   *)
(* function under construction (its blocks, the current block, the values  *)
(* and the log of control operations).  st.val is the Value the last       *)
(* lowering returned and st.panic the message of the panic that ended the  *)
(* lowering, "" while it runs.  A function of FunctionBuilder or JITModule *)
(* is modelled by the operator named at its call.                          *)
(***************************************************************************)
I64 == "i64"
F64T == "f64"
\* module.target_config().pointer_type() of a 64-bit host
PointerType == I64

Imm(hi, lo) == [hi |-> hi, lo |-> lo]

\* seen: the names whose Variable instruction this function has begun to lower
NoFunction ==
    [blocks |-> <<>>, cur |-> 0, declared |-> {}, vtypes |-> <<>>, slotTy |-> <<>>,
     log |-> <<>>, seen |-> {}, finalized |-> FALSE]

\* JIT::new(): empty symbol table, empty module, empty data context
NewJit ==
    [variables |-> <<>>, funcs |-> <<>>, data |-> <<>>, named |-> {}, staged |-> <<>>,
     stageLog |-> <<>>]

\* index: the index counter a callee leaves to its caller
Lowering(j, f) == [j |-> j, f |-> f, val |-> 0, panic |-> "", ret |-> 0, index |-> 0]

Panic(st, msg) == IF st.panic # "" THEN st ELSE [st EXCEPT !.panic = msg]

Logged(st, op, blk, to) ==
    [st EXCEPT !.f.log = Append(@, [op |-> op, blk |-> blk, to |-> to])]

\* the instructions that end a block: jump and return (brz is a branch that
\* falls through to the next instruction)
IsTerminator(ins) == ins.op \in {"jump", "return"}

IsControl(ins) == ins.op \in {"brz", "jump", "return"}

CountTerminators(insts) == Len(SelectSeq(insts, IsTerminator))

CountControls(insts) == Len(SelectSeq(insts, IsControl))

\* func_builder.create_block(): the new block is Len(blocks) + 1
CreateBlock(st) ==
    IF st.panic # "" THEN st
    ELSE Logged([st EXCEPT !.f.blocks = Append(@, [sealed |-> 0, insts |-> <<>>, pval |-> 0])],
                "create", Len(st.f.blocks) + 1, 0)

OpAt(insts, k) == IF k >= 1 /\ k <= Len(insts) THEN insts[k].op ELSE ""

\* the builder leaves its current block: the log keeps the number of the
\* block's terminators and of its control instructions, and the operations
\* of its last two instructions
Left(st) ==
    IF st.f.cur = 0 THEN st
    ELSE [st EXCEPT !.f.log =
            Append(@, [op |-> "leave", blk |-> st.f.cur, to |-> 0,
                       terms |-> CountTerminators(st.f.blocks[st.f.cur].insts),
                       ctrls |-> CountControls(st.f.blocks[st.f.cur].insts),
                       last |-> OpAt(st.f.blocks[st.f.cur].insts,
                                     Len(st.f.blocks[st.f.cur].insts)),
                       prev |-> OpAt(st.f.blocks[st.f.cur].insts,
                                     Len(st.f.blocks[st.f.cur].insts) - 1)])]

\* func_builder.switch_to_block(b)
SwitchToBlock(st, b) ==
    IF st.panic # "" THEN st
    ELSE [Logged(Left(st), "switch", b, st.f.cur) EXCEPT !.f.cur = b]

\* the mutant: sealing is forgotten
SealBlockNever(st, b) == st

\* func_builder.seal_block(b)
SealBlock(st, b) ==
    IF st.panic # "" THEN st
    ELSE Logged([st EXCEPT !.f.blocks[b].sealed = @ + 1], "seal", b, 0)

\* func_builder.append_block_param(b, ty): the parameter is a new Value
AppendBlockParam(st, b) ==
    IF st.panic # "" THEN st
    ELSE [st EXCEPT !.f.blocks[b].pval = Len(st.f.vtypes) + 1,
                    !.f.vtypes = Append(@, PointerType)]

\* an instruction appended to the current block
Emit(st, ins) ==
    IF st.panic # "" THEN st
    ELSE [st EXCEPT !.f.blocks[st.f.cur].insts = Append(@, ins)]

\* an instruction with one result: the new Value is Len(vtypes) + 1
EmitValue(st, ins, ty) ==
    IF st.panic # "" THEN st
    ELSE [Emit(st, [ins EXCEPT !.res = Len(st.f.vtypes) + 1])
          EXCEPT !.f.vtypes = Append(@, ty), !.val = Len(st.f.vtypes) + 1]

NoArgs == <<>>

Inst(op) == [op |-> op, res |-> 0, imm |-> Imm(0, 0), args |-> NoArgs, to |-> 0, sym |-> <<>>]

\* ins().iconst(ty, imm)
Iconst(st, imm) == EmitValue(st, [Inst("iconst") EXCEPT !.imm = imm], I64)

\* ins().f64const(v)
F64const(st, v) == EmitValue(st, [Inst("f64const") EXCEPT !.imm = v], F64T)

\* ins().symbol_value(pointer, local_id)
SymbolValue(st, data) == EmitValue(st, [Inst("symbol_value") EXCEPT !.to = data], PointerType)

\* ins().jump(block, args)
Jump(st, b, args) ==
    Logged(Emit(st, [Inst("jump") EXCEPT !.to = b, !.args = args]), "jump", st.f.cur, b)

\* ins().brz(cond, block, &[])
Brz(st, cond, b) ==
    Logged(Emit(st, [Inst("brz") EXCEPT !.to = b, !.args = <<cond>>]), "brz", st.f.cur, b)

\* ins().return_(&[ret])
Return(st, v) ==
    Logged(Emit(st, [Inst("return") EXCEPT !.args = <<v>>]), "return", st.f.cur, 0)

\* ins().call(local_callee, &arg_values); inst_results(call)[0]
Call(st, name, args) ==
    EmitValue(st, [Inst("call") EXCEPT !.sym = name, !.args = args], PointerType)

\* func_builder.declare_var(var, ty): declaring a variable twice is refused
\* by a builder that checks, and overwrites the type otherwise
DeclareVar(st, var) ==
    IF st.panic # "" THEN st
    ELSE IF var \in st.f.declared
    THEN IF checks THEN Panic(st, "variable declared twice") ELSE st
    ELSE [st EXCEPT !.f.declared = @ \cup {var}]

SlotType(f, var) == IF var \in DOMAIN f.slotTy THEN f.slotTy[var] ELSE I64

\* func_builder.def_var(var, val): a value that is not of the declared type
\* is refused by a builder that checks
DefVar(st, var, val) ==
    IF st.panic # "" THEN st
    ELSE IF var \notin st.f.declared /\ checks
    THEN Panic(st, "variable used but not declared")
    ELSE IF st.f.vtypes[val] # I64 /\ checks
    THEN Panic(st, "declared type of variable doesn't match type of value")
    ELSE [Emit(st, [Inst("def_var") EXCEPT !.to = var, !.args = <<val>>])
          EXCEPT !.f.slotTy = (var :> st.f.vtypes[val]) @@ @]

\* func_builder.use_var(var): the value of the last definition, zero when
\* there is none; the type of a variable never declared is looked up in vain
UseVar(st, var) ==
    IF st.panic # "" THEN st
    ELSE IF var \notin st.f.declared
    THEN Panic(st, "variable is used but its type has not been declared")
    ELSE EmitValue(st, [Inst("use_var") EXCEPT !.to = var], SlotType(st.f, var))

\* Linkage::best
BestLinkage(a, b) ==
    IF "Export" \in {a, b} THEN "Export"
    ELSE IF "Local" \in {a, b} THEN "Local"
    ELSE "Import"

\* module.declare_function(name, linkage, sig).expect(..): a second
\* declaration of a name merges the linkage and must have the signature
DeclareFunction(st, name, linkage, nparams) ==
    IF st.panic # "" THEN st
    ELSE IF name \in DOMAIN st.j.funcs
    THEN IF st.j.funcs[name].params # nparams
         THEN Panic(st, "problem declaring function")
         ELSE [st EXCEPT !.j.funcs[name].linkage = BestLinkage(@, linkage),
                         !.j.funcs[name].as = @ \cup {linkage}]
    ELSE [st EXCEPT !.j.funcs =
              (name :> [linkage |-> linkage, params |-> nparams, as |-> {linkage},
                        defined |-> FALSE]) @@ @]

\* data_ctx.define(contents): the context must hold nothing
DataDefine(st, bytes) ==
    IF st.panic # "" THEN st
    ELSE IF st.j.staged # <<>> /\ checks
    THEN Panic([st EXCEPT !.j.stageLog = Append(@, [op |-> "define", loaded |-> TRUE])],
               "data context already defined")
    ELSE [st EXCEPT !.j.staged = <<bytes>>,
                    !.j.stageLog = Append(@, [op |-> "define", loaded |-> st.j.staged # <<>>])]

\* data_ctx.clear()
DataClear(st) ==
    IF st.panic # "" THEN st
    ELSE [st EXCEPT !.j.staged = <<>>,
                    !.j.stageLog = Append(@, [op |-> "clear", loaded |-> st.j.staged # <<>>])]

\* module.declare_anonymous_data(writable, tls) and define_data(sym, &data_ctx)
DefineAnonymousData(st, writable, tls) ==
    IF st.panic # "" THEN st
    ELSE [st EXCEPT !.j.data = Append(@, [bytes |-> st.j.staged[1], writable |-> writable,
                                           tls |-> tls])]

\* the mutant: create_data clears the buffer on its error path too
CreateDataFailedCleared(st) == [DataClear(st) EXCEPT !.ret = "err"]

\* define_data(id, &jit.data_ctx).map_err(|e| e.to_string())? on a name
\* that is defined: the function returns before data_ctx.clear()
CreateDataFailed(st) == [st EXCEPT !.ret = "err"]

\* define_data, data_ctx.clear(), finalize_definitions, get_finalized_data
CreateDataDefined(st, name) ==
    IF st.panic # "" THEN st
    ELSE IF name \in st.j.named THEN CreateDataFailed(st)
    ELSE [DataClear([st EXCEPT !.j.named = @ \cup {name}]) EXCEPT !.ret = "ok"]

\* create_data(jit, name, contents)
CreateDataOn(st, name, contents) == CreateDataDefined(DataDefine(st, contents), name)

NUL == "<NUL>"

\* create_anonymous_string(jit, func_builder, string_content)
CreateAnonymousString(st, content) ==
    SymbolValue(DataClear(DefineAnonymousData(DataDefine(st, content), TRUE, FALSE)),
                Len(st.j.data) + 1)

\* f64::trunc
Trunc(v) == F64(v.hi, v.lo, 0)

\* `literal as i64`: the cast saturates at the ends of the i64 range
AsI64(v) ==
    IF v.hi >= 1 THEN Imm(1, -1)
    ELSE IF v.hi <= -1 THEN Imm(-1, 0)
    ELSE Imm(0, v.lo)

\* the mutant: a number is an integer when it is small
IsIntegralSmall(v) == v.frac = 0 /\ v.hi = 0

\* literal.trunc() == literal
IsIntegral(v) == Trunc(v) = v

EXT == "_ext"

\* name.contains("_ext")
IsExtern(name) == \E k \in 1..Len(name) : name[k] = EXT

\* name.replace("_ext", "")
ExternSymbol(name) == SelectSeq(name, LAMBDA piece : piece # EXT)

\* declare_variable(int, func_builder, variables, index, name): the slot is
\* Variable::new(*index) whether or not the name is in the table
DeclareVariable(st, index, name) ==
    IF st.panic # "" THEN st
    ELSE IF name \notin DOMAIN st.j.variables
    THEN [DeclareVar([st EXCEPT !.j.variables = (name :> index) @@ @], index)
          EXCEPT !.ret = index, !.index = index + 1]
    ELSE [st EXCEPT !.ret = index, !.index = index]

\* the mutant: an Array or Object is lowered as the constant zero
NotImplementedAsZero(st) == Iconst(st, Imm(0, 0))

\* Instruction::Array(value) => panic!("not implemented: ..") and the same
\* for Instruction::Object
NotImplemented(st) == Panic(st, "not implemented")

RECURSIVE TranslateExpr(_, _), TranslateBody(_, _, _), TranslateArgs(_, _, _)
RECURSIVE TranslateCall(_, _, _, _), TranslateWhileLoop(_, _, _), WhileFrom(_, _, _, _)
RECURSIVE TranslateVariable(_, _, _), TranslateCallee(_, _, _), TranslateIfElse(_, _, _, _)
RECURSIVE IfElseFrom(_, _, _, _), IfElseBranch(_, _, _, _), IfElseAfterCondition(_, _, _)

\* for expr in body { last = translate_expr(jit, func_builder, expr); }
\* keep: the value of an empty body
TranslateBody(st, body, k) ==
    IF st.panic # "" \/ k > Len(body) THEN st
    ELSE TranslateBody(TranslateExpr(st, body[k]), body, k + 1)

\* arg_values.push(translate_expr(..)): the values pushed so far are kept
\* across the lowering of the argument
\* the mutant: a lowered argument goes to the front of arg_values
PushArgFirst(pushed, st) ==
    IF st.panic # "" THEN st ELSE [st EXCEPT !.ret = <<st.val>> \o pushed]

\* arg_values.push(translate_expr(jit, func_builder, arg))
PushArgAfter(pushed, st) ==
    IF st.panic # "" THEN st ELSE [st EXCEPT !.ret = Append(pushed, st.val)]

\* for arg in args { arg_values.push(translate_expr(..)) }

TranslateArgs(st, args, k) ==
    IF st.panic # "" \/ k > Len(args) THEN st
    ELSE TranslateArgs(PushArgAfter(st.ret, TranslateExpr(st, args[k])), args, k + 1)

\* translate_call: the callee is declared, then the arguments are lowered
\* left to right, then the call is emitted
TranslateCallee(st, name, args) ==
    IF st.panic # "" THEN st ELSE Call(st, name, st.ret)

TranslateCall(st, name, args, is_extern) ==
    TranslateCallee(
        TranslateArgs(
            [(IF is_extern
              THEN DeclareFunction(st, ExternSymbol(name), "Import", Len(args))
              ELSE DeclareFunction(st, name, "Local", Len(args)))
             EXCEPT !.ret = <<>>],
            args, 1),
        IF is_extern THEN ExternSymbol(name) ELSE name, args)

\* func_builder.def_var(var, val); func_builder.use_var(var)
VariableDefUse(st, var) == UseVar(DefVar(st, var, st.val), var)

\* the Variable instruction of this name is being lowered
Seen(st, name) == IF st.panic # "" THEN st ELSE [st EXCEPT !.f.seen = @ \cup {name}]

\* the mutant: a name the table lacks reads slot 0
LookupOrZero(st, name) ==
    UseVar(st, IF name \in DOMAIN st.j.variables THEN st.j.variables[name] ELSE 0)

\* jit.variables.get(&name).expect("variable not defined")
Lookup(st, name) ==
    IF name \in DOMAIN st.j.variables
    THEN UseVar(st, st.j.variables[name])
    ELSE Panic(st, "variable not defined")

\* the reference lowered to a use_var is logged with whether a Variable of
\* the name came before it in this function
Referenced(before, st, name) ==
    IF st.panic # "" THEN st
    ELSE [st EXCEPT !.f.log = Append(@, [op |-> "ref", blk |-> st.f.cur, to |-> 0,
                                          name |-> name,
                                          declared |-> name \in before.f.seen])]

\* the Variable arm: declare_variable with index &mut 0, the value, def_var,
\* use_var
TranslateVariable(st, name, value) ==
    VariableDefUse(TranslateExpr(DeclareVariable(Seen(st, name), 0, name), value), 0)

\* translate_while_loop; h is the header, h + 1 the body, h + 2 the exit
\* the mutant: the header is sealed as soon as the condition has branched
WhileConditionSealsHeader(st, h) ==
    SealBlock(
        SealBlock(SwitchToBlock(Jump(Brz(st, st.val, h + 2), h + 1, NoArgs), h + 1), h + 1),
        h)

\* brz(condition_value, exit_block); jump(body_block); switch_to_block(body_block);
\* seal_block(body_block)
WhileCondition2(st, h) ==
    SealBlock(SwitchToBlock(Jump(Brz(st, st.val, h + 2), h + 1, NoArgs), h + 1), h + 1)

\* the mutant: the body does not jump back
WhileBackEdgeMissing(st, h) == st

\* func_builder.ins().jump(header_block, &[]) after the body
WhileBackEdge(st, h) == Jump(st, h, NoArgs)

\* the mutant: the header is never sealed
WhileExitHeaderOpen(st, h) ==
    Iconst(SealBlock(SwitchToBlock(st, h + 2), h + 2), Imm(0, 0))

\* switch_to_block(exit_block); seal_block(header_block);
\* seal_block(exit_block); iconst(jit.num, 0)
WhileExit(st, h) ==
    Iconst(SealBlock(SealBlock(SwitchToBlock(st, h + 2), h), h + 2), Imm(0, 0))

WhileFrom(st, h, condition, loop_body) ==
    WhileExit(
        WhileBackEdge(
            TranslateBody(
                WhileCondition2(TranslateExpr(SwitchToBlock(Jump(st, h, NoArgs), h), condition), h),
                loop_body, 1),
            h),
        h)

TranslateWhileLoop(st, condition, loop_body) ==
    IF st.panic # "" THEN st
    ELSE WhileFrom(CreateBlock(CreateBlock(CreateBlock(st))), Len(st.f.blocks) + 1,
                   condition, loop_body)

\* the mutant: the branch jumps to merge without passing its value
JumpWithoutValue(st, merge) == IF st.panic # "" THEN st ELSE Jump(st, merge, NoArgs)

\* translate_if_else; t is the then block, t + 1 the else block, t + 2 the
\* merge block.  jump(merge_block, &[then_return]), and the same for else
JumpLast(st, merge) == IF st.panic # "" THEN st ELSE Jump(st, merge, <<st.val>>)

IfElseBranch(st, b, body, merge) ==
    JumpLast(TranslateBody(Iconst(SealBlock(SwitchToBlock(st, b), b), Imm(0, 0)), body, 1), merge)

IfElseCondition(st, t) ==
    Jump(Brz(AppendBlockParam(CreateBlock(CreateBlock(CreateBlock(st))), t + 2),
             st.val, t + 1),
         t, NoArgs)

\* switch_to_block(merge_block); seal_block(merge_block);
\* block_params(merge_block)[0]
IfElseMerge(st, merge) ==
    IF st.panic # "" THEN st
    ELSE [SealBlock(SwitchToBlock(st, merge), merge) EXCEPT !.val = st.f.blocks[merge].pval]

IfElseFrom(st, t, then_body, else_body) ==
    IfElseMerge(
        IfElseBranch(IfElseBranch(IfElseCondition(st, t), t, then_body, t + 2),
                     t + 1, else_body, t + 2),
        t + 2)

IfElseAfterCondition(st, then_body, else_body) ==
    IF st.panic # "" THEN st
    ELSE IfElseFrom(st, Len(st.f.blocks) + 1, then_body, else_body)

TranslateIfElse(st, condition, then_body, else_body) ==
    IF st.panic # "" THEN st
    ELSE IfElseAfterCondition(TranslateExpr(st, condition), then_body, else_body)

\* translate_expr(jit, func_builder, expr)
TranslateExpr(st, expr) ==
    IF st.panic # "" THEN st
    ELSE CASE expr.tag = "NumericLiteral" ->
                IF IsIntegral(expr.v) THEN Iconst(st, AsI64(expr.v)) ELSE F64const(st, expr.v)
           [] expr.tag = "StringLiteral" -> CreateAnonymousString(st, Append(expr.s, NUL))
           [] expr.tag = "BooleanLiteral" -> Iconst(st, Imm(0, IF expr.b THEN 1 ELSE 0))
           [] expr.tag = "FunctionCall" ->
                TranslateCall(st, expr.name, expr.args, IsExtern(expr.name))
           [] expr.tag = "VariableReference" ->
                Referenced(st, Lookup(st, expr.name), expr.name)
           [] expr.tag \in {"Array", "Object"} -> NotImplemented(st)
           [] expr.tag = "Variable" -> TranslateVariable(st, expr.name, expr.value)
           [] expr.tag = "WhileBlock" ->
                TranslateWhileLoop(st, expr.condition, expr.body)

(***************************************************************************)
(* compile(jit, ast), one action per step.  translate_if_else is public    *)
(* and has no caller in the repository: a statement tagged "IfElse" stands *)
(* for a caller's call of it on the builder between two statements.        *)
(***************************************************************************)
IfElse(condition, then_body, else_body) ==
    [tag |-> "IfElse", condition |-> condition, then_body |-> then_body,
     else_body |-> else_body]

X == <<"x">>
Y == <<"y">>
One == NumericLiteral(F64(0, 1, 0))
Zero == NumericLiteral(F64(0, 0, 0))
LetX(v) == VariableI("Let", X, v)
LetY(v) == VariableI("Let", Y, v)

\* the statements the programs handed to compile are made of
BuilderStmts ==
    { One,
      NumericLiteral(F64(0, 1, 500)),
      NumericLiteral(F64(1, 0, 0)),
      StringLiteral(<<"hi">>),
      FunctionCall(<<"f">>, <<>>),
      FunctionCall(<<"f", EXT>>, <<>>),
      FunctionCall(<<"my", EXT, "fn">>, <<One>>),
      FunctionCall(<<"f">>, <<VariableReference(X)>>),
      FunctionCall(<<"g">>, <<Zero, One>>),
      VariableReference(X),
      LetX(One),
      LetX(NumericLiteral(F64(0, 123, 456))),
      LetY(Zero),
      LetX(VariableReference(X)),
      ObjectI(<<>>),
      ArrayI(<<One>>),
      WhileBlock(Zero, <<ObjectI(<<>>), One>>),
      WhileBlock(VariableReference(X), <<LetX(Zero)>>),
      WhileBlock(Zero, <<LetX(One)>>),
      WhileBlock(BooleanLiteral(TRUE), <<>>),
      WhileBlock(NumericLiteral(F64(0, 1, 500)), <<>>),
      WhileBlock(Zero, <<WhileBlock(VariableReference(Y), <<StringLiteral(<<"hi">>)>>)>>),
      IfElse(VariableReference(X), <<One>>, <<>>),
      IfElse(BooleanLiteral(FALSE), <<WhileBlock(Zero, <<>>)>>, <<LetY(One)>>) }

Asts == SeqsUpTo(BuilderStmts, MaxAstLen)

\* the statements of the programs a JIT value is handed after its first
ReuseStmts == {LetX(One), LetY(Zero), VariableReference(X)}

ReuseAsts == SeqsUpTo(ReuseStmts, MaxAstLen)

\* no function is running
NoRun ==
    [pc |-> "none", blk |-> 0, ip |-> 0, slots |-> <<>>, vals |-> <<>>, ret |-> Imm(0, 0),
     code |-> <<>>]

SetLowering(st) ==
    /\ jit' = st.j
    /\ fb' = st.f
    /\ cpc' = IF st.panic # "" THEN "panicked" ELSE cpc

\* lines 69-94: the context, the builder, the entry block created, switched
\* to and sealed
CompileEnter ==
    /\ \/ cpc = "idle"
       \/ cpc \in {"returned", "failed"} /\ run.pc # "running" /\ ncompile < MaxCompiles
    /\ \E ast \in (IF ncompile = 0 THEN Asts ELSE ReuseAsts) :
          /\ prog' = ast
          /\ todo' = ast
    /\ jit' = jit
    /\ fb' = SealBlock(SwitchToBlock(CreateBlock(Lowering(jit, NoFunction)), 1), 1).f
    /\ cpc' = "lowering"
    /\ run' = NoRun
    /\ ncompile' = ncompile + 1
    /\ UNCHANGED <<parseVars, dv, checks, ndata>>

\* one turn of `for expr in ast { translate_expr(jit, &mut func_builder, expr); }`
CompileStmt ==
    /\ cpc = "lowering"
    /\ todo # <<>>
    /\ SetLowering(IF Head(todo).tag = "IfElse"
                   THEN TranslateIfElse(Lowering(jit, fb), Head(todo).condition,
                                        Head(todo).then_body, Head(todo).else_body)
                   ELSE TranslateExpr(Lowering(jit, fb), Head(todo)))
    /\ todo' = Tail(todo)
    /\ UNCHANGED <<parseVars, dv, checks, prog, run, ncompile, ndata>>

\* func_builder.finalize(): the current block is left for good
Finalize(st) == [Logged(Left(st), "finalize", 0, 0) EXCEPT !.f.finalized = TRUE]

\* the mutant: main returns the first value of the function
ReturnFirstValue(st) == Return(st, 1)

\* func_builder.ins().return_(&[ret])
ReturnValue(st) == Return(st, st.val)

\* the mutant: the return is emitted in the entry block
CompileFinishInEntry ==
    /\ cpc = "lowering"
    /\ todo = <<>>
    /\ fb' = Finalize(ReturnValue(Iconst([Lowering(jit, fb) EXCEPT !.f.cur = 1], Imm(0, 0)))).f
    /\ cpc' = "finalized"
    /\ UNCHANGED <<parseVars, dv, checks, jit, prog, todo, run, ncompile, ndata>>

\* lines 109-115: iconst 0, return, finalize
CompileFinish ==
    /\ cpc = "lowering"
    /\ todo = <<>>
    /\ fb' = Finalize(ReturnValue(Iconst(Lowering(jit, fb), Imm(0, 0)))).f
    /\ cpc' = "finalized"
    /\ UNCHANGED <<parseVars, dv, checks, jit, prog, todo, run, ncompile, ndata>>

\* the verifier define_function runs: a branch tests an integer, a call and
\* a jump pass values of the pointer-width integer type
WellTyped(f, ins) ==
    ins.op \in {"brz", "call", "jump", "return"} =>
        \A k \in 1..Len(ins.args) : f.vtypes[ins.args[k]] = I64

Verifies(f) ==
    \A b \in 1..Len(f.blocks) :
        \A k \in 1..Len(f.blocks[b].insts) : WellTyped(f, f.blocks[b].insts[k])

\* the symbols the function calls that the module does not define
Unresolved(j, f) ==
    {name \in DOMAIN j.funcs :
        /\ ~j.funcs[name].defined
        /\ name # <<"main">>
        /\ \E b \in 1..Len(f.blocks) : \E k \in 1..Len(f.blocks[b].insts) :
              f.blocks[b].insts[k].op = "call" /\ f.blocks[b].insts[k].sym = name}

\* lines 117-133: declare_function("main", Export), define_function,
\* finalize_definitions, get_finalized_function.  hostHas: the host process
\* exports the symbols the module leaves undefined
CompileDefine ==
    /\ cpc = "finalized"
    /\ \E hostHas \in BOOLEAN :
        IF <<"main">> \in DOMAIN jit.funcs /\ jit.funcs[<<"main">>].params # 0
        THEN cpc' = "failed" /\ UNCHANGED <<jit, run>>
        ELSE IF (<<"main">> \in DOMAIN jit.funcs /\ jit.funcs[<<"main">>].defined)
                \/ ~Verifies(fb)
        THEN /\ cpc' = "failed"
             /\ jit' = DeclareFunction(Lowering(jit, fb), <<"main">>, "Export", 0).j
             /\ run' = run
        ELSE IF Unresolved(jit, fb) # {} /\ ~hostHas
        THEN /\ cpc' = "panicked"
             /\ jit' = DeclareFunction(Lowering(jit, fb), <<"main">>, "Export", 0).j
             /\ run' = run
        ELSE /\ cpc' = "returned"
             /\ jit' = [DeclareFunction(Lowering(jit, fb), <<"main">>, "Export", 0).j
                        EXCEPT !.funcs[<<"main">>].defined = TRUE]
             /\ run' = [NoRun EXCEPT !.pc = "ready", !.code = fb.blocks,
                                     !.vals = [k \in 1..Len(fb.vtypes) |-> Imm(0, 0)]]
    /\ UNCHANGED <<parseVars, dv, checks, fb, prog, todo, ncompile, ndata>>

\* the data objects a caller creates by name
DataNames == {<<"d">>}

SetCreated(st) ==
    /\ jit' = st.j
    /\ cpc' = IF st.panic # "" THEN "panicked" ELSE cpc

\* create_data called on the JIT value between two calls of compile
CreateData ==
    /\ cpc \in {"idle", "returned", "failed"}
    /\ run.pc # "running"
    /\ ndata < MaxCreateData
    /\ \E name \in DataNames : SetCreated(CreateDataOn(Lowering(jit, fb), name, <<"bytes">>))
    /\ ndata' = ndata + 1
    /\ UNCHANGED <<parseVars, dv, checks, fb, prog, todo, run, ncompile>>

(***************************************************************************)
(* The execution of the compiled main, one instruction per step.  A slot   *)
(* reads zero until it is written, as Cranelift's SSA construction has it. *)
(***************************************************************************)
SlotValue(r, var) == IF var \in DOMAIN r.slots THEN r.slots[var] ELSE Imm(0, 0)

ArgValue(r, ins) == r.vals[ins.args[1]]

\* the jump to a block, which binds the block's parameter to the argument
PassArg(r, ins) ==
    IF ins.args # <<>> /\ r.code[ins.to].pval # 0
    THEN [r EXCEPT !.vals[r.code[ins.to].pval] = ArgValue(r, ins), !.blk = ins.to, !.ip = 1]
    ELSE [r EXCEPT !.blk = ins.to, !.ip = 1]

\* the address of a data object
AddressOf(data) == [hi |-> 0, lo |-> 0, data |-> data]

\* one instruction; called: the value the function called returns
Exec(r, ins, called) ==
    CASE ins.op \in {"iconst", "f64const"} ->
            [r EXCEPT !.vals[ins.res] = ins.imm, !.ip = @ + 1]
      [] ins.op = "symbol_value" ->
            [r EXCEPT !.vals[ins.res] = AddressOf(ins.to), !.ip = @ + 1]
      [] ins.op = "call" ->
            [r EXCEPT !.vals[ins.res] = Imm(0, called), !.ip = @ + 1]
      [] ins.op = "def_var" ->
            [r EXCEPT !.slots = (ins.to :> ArgValue(r, ins)) @@ @, !.ip = @ + 1]
      [] ins.op = "use_var" ->
            [r EXCEPT !.vals[ins.res] = SlotValue(r, ins.to), !.ip = @ + 1]
      [] ins.op = "brz" ->
            IF ArgValue(r, ins) = Imm(0, 0)
            THEN [r EXCEPT !.blk = ins.to, !.ip = 1]
            ELSE [r EXCEPT !.ip = @ + 1]
      [] ins.op = "jump" -> PassArg(r, ins)
      [] ins.op = "return" -> [r EXCEPT !.pc = "done", !.ret = ArgValue(r, ins)]

\* the caller calls the pointer compile returned
RunCall ==
    /\ cpc = "returned"
    /\ run.pc = "ready"
    /\ run' = [run EXCEPT !.pc = "running", !.blk = 1, !.ip = 1]
    /\ UNCHANGED <<parseVars, dv, checks, jit, fb, prog, todo, cpc, ncompile, ndata>>

RunInst ==
    /\ run.pc = "running"
    /\ run.ip <= Len(run.code[run.blk].insts)
    /\ \E called \in {0, 1} :
          run' = Exec(run, run.code[run.blk].insts[run.ip], called)
    /\ UNCHANGED <<parseVars, dv, checks, jit, fb, prog, todo, cpc, ncompile, ndata>>

(***************************************************************************)
(* declare_variables(int, func_builder, params, the_return, stmts,         *)
(* entry_block), one action per loop turn.  Its table `variables` is the   *)
(* table of the lowering state dv.st, and dv.calls keeps what each call of *)
(* declare_variable was handed and gave back.                              *)
(***************************************************************************)
DvIdle ==
    [pc |-> "idle", params |-> <<>>, the_return |-> <<>>, stmts |-> <<>>, k |-> 0,
     st |-> Lowering(NewJit, NoFunction), calls |-> <<>>]

A == <<"a">>
R == <<"r">>

DvParams == SeqsUpTo({A, <<"b">>}, MaxDeclared)

DvStmts == SeqsUpTo({VariableI("Let", A, One), LetX(One), One}, MaxDeclared)

\* the builder handed in: the entry block is current and has one block
\* parameter per function parameter
EntryWithParams(n) ==
    [NoFunction EXCEPT !.blocks = <<[sealed |-> 1, insts |-> <<>>, pval |-> 0]>>,
                       !.cur = 1,
                       !.vtypes = [k \in 1..n |-> I64]]

\* one call of declare_variable: its arguments, and what it gave back
DeclareCall(before, after, name) ==
    [name |-> name,
     known |-> name \in DOMAIN before.j.variables,
     mapped |-> IF name \in DOMAIN before.j.variables THEN before.j.variables[name] ELSE -1,
     index |-> before.index,
     returned |-> after.ret,
     indexAfter |-> after.index,
     declaredNew |-> after.f.declared # before.f.declared,
     returns |-> after.panic = ""]

DvAfter(d, before, declared, after, name) ==
    [d EXCEPT !.st = after,
              !.k = @ + 1,
              !.calls = Append(@, DeclareCall(before, declared, name)),
              !.pc = IF after.panic # "" THEN "panicked" ELSE @]

DvParamDefined(d, declared, name) ==
    DvAfter(d, d.st, declared, DefVar(declared, declared.ret, d.k + 1), name)

DvReturnDefined(d, zero, declared) ==
    [DvAfter(d, zero, declared, DefVar(declared, declared.ret, declared.val), d.the_return)
     EXCEPT !.k = 0, !.pc = IF @ = "panicked" THEN @ ELSE "stmts"]

DvReturnDeclared(d, zero) ==
    DvReturnDefined(d, zero, DeclareVariable(zero, zero.index, d.the_return))

\* declare_variables_in_stmt(int, builder, variables, index, expr)
DeclareVariablesInStmt(d, expr) ==
    IF expr.tag = "Variable"
    THEN DvAfter(d, d.st, DeclareVariable(d.st, d.st.index, expr.name),
                 DeclareVariable(d.st, d.st.index, expr.name), expr.name)
    ELSE [d EXCEPT !.k = @ + 1]

DVEnter ==
    /\ dv.pc = "idle"
    /\ \E params \in DvParams, the_return \in {A, R}, stmts \in DvStmts :
          dv' = [dv EXCEPT !.pc = "params", !.params = params, !.the_return = the_return,
                           !.stmts = stmts,
                           !.st = Lowering(NewJit, EntryWithParams(Len(params)))]
    /\ UNCHANGED <<src, srcAst, drv, checks, jit, fb, prog, todo, cpc, run, ncompile, ndata>>

\* one turn of `for (i, name) in params.iter().enumerate()`
DVParam ==
    /\ dv.pc = "params"
    /\ dv.k < Len(dv.params)
    /\ dv' = DvParamDefined(dv, DeclareVariable(dv.st, dv.st.index, dv.params[dv.k + 1]),
                            dv.params[dv.k + 1])
    /\ UNCHANGED <<src, srcAst, drv, checks, jit, fb, prog, todo, cpc, run, ncompile, ndata>>

\* the zero constant and the return variable
DVReturn ==
    /\ dv.pc = "params"
    /\ dv.k = Len(dv.params)
    /\ dv' = DvReturnDeclared(dv, Iconst(dv.st, Imm(0, 0)))
    /\ UNCHANGED <<src, srcAst, drv, checks, jit, fb, prog, todo, cpc, run, ncompile, ndata>>

\* one turn of `for expr in stmts`
DVStmt ==
    /\ dv.pc = "stmts"
    /\ dv.k < Len(dv.stmts)
    /\ dv' = DeclareVariablesInStmt(dv, dv.stmts[dv.k + 1])
    /\ UNCHANGED <<src, srcAst, drv, checks, jit, fb, prog, todo, cpc, run, ncompile, ndata>>

\* the table is returned
DVDone ==
    /\ dv.pc = "stmts"
    /\ dv.k = Len(dv.stmts)
    /\ dv' = [dv EXCEPT !.pc = "done"]
    /\ UNCHANGED <<src, srcAst, drv, checks, jit, fb, prog, todo, cpc, run, ncompile, ndata>>

DeclareNext == DVEnter \/ DVParam \/ DVReturn \/ DVStmt \/ DVDone

ParseInit ==
    /\ \/ \E q \in SeqsUpTo(RawAlphabet, MaxRawLen) \cup ScenarioSources :
             src = q /\ srcAst = <<>>
       \/ \E p \in Programs, semi \in BOOLEAN :
             src = UnparseProgram(p, semi) /\ srcAst = <<p>>
    /\ drv = DrvInit
    /\ checks = FALSE
    /\ jit = NewJit
    /\ fb = NoFunction
    /\ prog = <<>>
    /\ todo = <<>>
    /\ cpc = "idle"
    /\ run = NoRun
    /\ ncompile = 0
    /\ ndata = 0
    /\ dv = DvIdle

ParseNext == DParse \/ DReport \/ DExit \/ DReturn \/ DBuildCall \/ DBuildStep \/ DRun

SpecParse == ParseInit /\ [][ParseNext]_vars

Init ==
    /\ src = <<>>
    /\ srcAst = <<>>
    /\ drv = DrvInit
    /\ checks \in BOOLEAN
    /\ jit = NewJit
    /\ fb = NoFunction
    /\ prog = <<>>
    /\ todo = <<>>
    /\ cpc = "idle"
    /\ run = NoRun
    /\ ncompile = 0
    /\ ndata = 0
    /\ dv = DvIdle

Next ==
    \/ CompileEnter \/ CompileStmt \/ CompileFinish \/ CompileDefine
    \/ CreateData \/ RunCall \/ RunInst

Spec == Init /\ [][Next]_vars

SpecDeclare == Init /\ [][DeclareNext]_vars

\* the processor runs the compiled code on
FairSpec == Spec /\ WF_vars(RunInst)

(***************************************************************************)
(* Claims about the parser and the driver.                                 *)
(***************************************************************************)

\* C1: parse accepts every program that is a sequence of statements, each a
\* while block or an expression optionally followed by ';', and yields one
\* instruction per statement in source order: once parse has run on the
\* source printed from a tree, it has a tree and the tree is that one.
C1_ParseYieldsStatements ==
    (drv.pc # "main" /\ srcAst # <<>>) => (drv.some /\ drv.tree = srcAst[1])


(***************************************************************************)
(* Claims about the lowering and the compiled code.                        *)
(***************************************************************************)
\* the statements of prog that compile has lowered
Lowered == Len(prog) - Len(todo)

\* the instructions directly inside an instruction
Children(ins) ==
    CASE ins.tag = "FunctionCall" -> ins.args
      [] ins.tag = "Variable" -> <<ins.value>>
      [] ins.tag = "WhileBlock" -> <<ins.condition>> \o ins.body
      [] ins.tag = "IfElse" -> <<ins.condition>> \o ins.then_body \o ins.else_body
      [] OTHER -> <<>>

RECURSIVE Within(_, _)
\* the tags of the instructions of a tree
Within(ins, tags) ==
    \/ ins.tag \in tags
    \/ \E k \in 1..Len(Children(ins)) : Within(Children(ins)[k], tags)

RECURSIVE Declares(_, _)
\* the tree holds a Variable instruction of the name
Declares(ins, name) ==
    \/ ins.tag = "Variable" /\ ins.name = name
    \/ \E k \in 1..Len(Children(ins)) : Declares(Children(ins)[k], name)

EndsWithExt(name) == name # <<>> /\ name[Len(name)] = EXT

DeclaredAs(name, linkage) == name \in DOMAIN jit.funcs /\ linkage \in jit.funcs[name].as

\* C2: a call whose name ends with the suffix _ext is declared as an import
\* named by the name without that suffix, and any other call, a name that
\* merely contains _ext included, is declared as a local symbol of exactly
\* its name: this holds of every top-level call compile has lowered.
C2_SuffixDecidesLinkage ==
    \A k \in 1..Lowered :
        prog[k].tag = "FunctionCall" =>
            IF EndsWithExt(prog[k].name)
            THEN DeclaredAs(SubSeq(prog[k].name, 1, Len(prog[k].name) - 1), "Import")
            ELSE DeclaredAs(prog[k].name, "Local")

\* C3: the symbol table maps distinct variable names to distinct slots, and
\* the slots in use are 0..k-1 for k names.
C3_SlotsDistinctAndDense ==
    /\ \A n1, n2 \in DOMAIN jit.variables :
          n1 # n2 => jit.variables[n1] # jit.variables[n2]
    /\ {jit.variables[n] : n \in DOMAIN jit.variables}
          = 0..(Cardinality(DOMAIN jit.variables) - 1)

\* C4: every block the builder created is sealed exactly once by the time the
\* function is finalized, and no block is ever sealed twice.
C4_EveryBlockSealedOnce ==
    /\ \A b \in 1..Len(fb.blocks) : fb.blocks[b].sealed <= 1
    /\ fb.finalized => \A b \in 1..Len(fb.blocks) : fb.blocks[b].sealed = 1

\* a function with a while loop nested in a while loop and an if-else whose
\* branch holds a while loop has been finalized
C4_Witness ==
    /\ fb.finalized
    /\ Len(fb.blocks) >= 10
    /\ \E k \in 1..Len(prog) : prog[k].tag = "IfElse" /\ Within(prog[k], {"WhileBlock"})
    /\ \E k \in 1..Len(prog) : prog[k].tag = "WhileBlock"

LeftBlocks == SelectSeq(fb.log, LAMBDA e : e.op = "leave")

\* C5 as stated: every block the builder leaves (by switch_to_block or by
\* finalize) holds exactly one of the instructions branch, jump and return.
C5_OneControlTransferPerBlock ==
    \A k \in 1..Len(LeftBlocks) : LeftBlocks[k].ctrls = 1

\* C5 amended: every block the builder leaves holds exactly one jump or
\* return, which is its last instruction, and at most one conditional branch
\* brz, which is the instruction before the last.
C5_OneTerminatorLast ==
    \A k \in 1..Len(LeftBlocks) :
        /\ LeftBlocks[k].terms = 1
        /\ LeftBlocks[k].last \in {"jump", "return"}
        /\ \/ LeftBlocks[k].ctrls = 1
           \/ LeftBlocks[k].ctrls = 2 /\ LeftBlocks[k].prev = "brz"

\* a finalized function whose loop header was left with brz and jump and
\* whose if-else condition block was left the same way
C5_Witness ==
    /\ fb.finalized
    /\ \E k \in 1..Len(prog) : prog[k].tag = "IfElse"
    /\ \E k \in 1..Len(prog) : prog[k].tag = "WhileBlock"
    /\ \E k \in 1..Len(LeftBlocks) : LeftBlocks[k].ctrls = 2 /\ LeftBlocks[k].blk = 1
    /\ \E k \in 1..Len(LeftBlocks) : LeftBlocks[k].ctrls = 2 /\ LeftBlocks[k].blk > 1
    /\ LeftBlocks[Len(LeftBlocks)].last = "return"

\* C6: a VariableReference lowered with no Variable of its name before it in
\* the program makes the builder abort, and no use of a slot is ever emitted
\* for such a reference.
C6_UndeclaredReferenceRejected ==
    /\ \A k \in 1..Len(fb.log) : fb.log[k].op = "ref" => fb.log[k].declared
    /\ (/\ cpc # "idle"
        /\ Lowered >= 1
        /\ prog[Lowered].tag = "VariableReference"
        /\ \A j \in 1..(Lowered - 1) : ~Declares(prog[j], prog[Lowered].name))
          => cpc = "panicked"

C8_NumericLiteralConstant ==
    (fb.finalized /\ \A k \in 1..Len(prog) : prog[k].tag = "NumericLiteral") =>
        \A k \in 1..Len(prog) :
            /\ fb.blocks[1].insts[k].op = "iconst" <=> Trunc(prog[k].v) = prog[k].v
            /\ fb.blocks[1].insts[k].op # "iconst" =>
                  /\ fb.blocks[1].insts[k].op = "f64const"
                  /\ fb.blocks[1].insts[k].imm = prog[k].v
            /\ fb.blocks[1].insts[k].op = "iconst" =>
                  fb.blocks[1].insts[k].imm = Imm(prog[k].v.hi, prog[k].v.lo)

\* C9: no symbol name is declared both as an imported function and as a
\* local function.
C9_ImportsAndLocalsDisjoint ==
    \A name \in DOMAIN jit.funcs : ~({"Import", "Local"} \subseteq jit.funcs[name].as)

\* C10: when parsing yields diagnostics and no tree, the process has exited
\* only after every collected diagnostic was reported, in order, with status
\* 1, and neither IR building nor execution has taken place.
C10_FailedParseReportsAllThenExits ==
    /\ (drv.pc \notin {"main", "report"} /\ ~drv.some) =>
          /\ drv.pc = "exited"
          /\ drv.exit = 1
          /\ drv.reported = drv.errs
          /\ drv.built = 0
          /\ ~drv.ran
    /\ (drv.pc = "report" /\ ~drv.some) => (drv.built = 0 /\ ~drv.ran /\ drv.exit = -1)

\* a failed parse with two diagnostics has been reported and left
C10_Witness ==
    /\ drv.pc = "exited"
    /\ ~drv.some
    /\ Len(drv.errs) = 2
    /\ drv.reported = drv.errs

\* C11: parsing `let i = 0; while (i) { i = 0 }` succeeds and yields a
\* Variable instruction followed by a WhileBlock whose condition is
\* VariableReference("i").
C11_LoopScenarioParses ==
    (src = S3Source /\ drv.pc # "main") =>
        /\ drv.some
        /\ Len(drv.tree) = 2
        /\ drv.tree[1].tag = "Variable"
        /\ drv.tree[2].tag = "WhileBlock"
        /\ drv.tree[2].condition = VariableReference(<<"i">>)

\* C12: parse followed by build, and build on the tree the tests expect of
\* parse, run to completion without aborting for a program with a top-level
\* call of console.log, a name no Variable declaration binds.
C12_ConsoleLogRuns ==
    (srcAst # <<>> /\ \E k \in 1..Len(srcAst[1]) :
                        srcAst[1][k].tag = "FunctionCall" /\ srcAst[1][k].name = ConsoleLog)
        => drv.pc \notin {"exited", "panicked"}

\* C13: the staging buffer of the data context is empty whenever contents
\* are loaded into it, across string literals and create_data calls, also
\* after a define step that reported an error.
C13_StagingBufferEmptyAtLoad ==
    \A k \in 1..Len(jit.stageLog) :
        jit.stageLog[k].op = "define" => ~jit.stageLog[k].loaded

\* C14: lowering a Variable whose value is a non-integral NumericLiteral, a
\* float constant, is a lowering error: compile is aborted by it.
C14_FloatIntoSlotRejected ==
    (/\ cpc # "idle"
     /\ Lowered >= 1
     /\ prog[Lowered].tag = "Variable"
     /\ prog[Lowered].value.tag = "NumericLiteral"
     /\ ~IsIntegral(prog[Lowered].value.v))
        => cpc = "panicked"

\* C15: a StringLiteral s is emitted as one anonymous data object whose
\* bytes are s followed by NUL, declared non-writable and non-thread-local,
\* and the value yielded is the symbol address of that object.
C15_StringLiteralData ==
    (/\ cpc = "lowering"
     /\ Lowered >= 1
     /\ prog[Lowered].tag = "StringLiteral")
        => /\ jit.data # <<>>
           /\ jit.data[Len(jit.data)].bytes = Append(prog[Lowered].s, NUL)
           /\ ~jit.data[Len(jit.data)].writable
           /\ ~jit.data[Len(jit.data)].tls
           /\ OpAt(fb.blocks[fb.cur].insts, Len(fb.blocks[fb.cur].insts)) = "symbol_value"
           /\ fb.blocks[fb.cur].insts[Len(fb.blocks[fb.cur].insts)].to = Len(jit.data)

\* C16: declare_variable called with a name that is in the symbol table
\* returns the slot mapped to the name, declares no new slot and leaves the
\* index counter unchanged, whatever the index counter is.
C16_KnownNameKeepsSlot ==
    \A k \in 1..Len(dv.calls) :
        (dv.calls[k].known /\ dv.calls[k].returns) =>
            /\ dv.calls[k].returned = dv.calls[k].mapped
            /\ ~dv.calls[k].declaredNew
            /\ dv.calls[k].indexAfter = dv.calls[k].index

\* the jumps and branches of the builder's log
IsTransfer(e) == e.op \in {"jump", "brz"}

\* the loop headers: the blocks the builder switched to and went on working
\* in before sealing anything
Headers ==
    {fb.log[i].blk : i \in {i \in 1..(Len(fb.log) - 1) :
                               fb.log[i].op = "switch" /\ fb.log[i + 1].op # "seal"}}

\* positions of the log before i that jump to block h from a block in froms
JumpsTo(h, i, froms) ==
    {j \in 1..(i - 1) : fb.log[j].op = "jump" /\ fb.log[j].to = h /\ fb.log[j].blk \in froms}

\* C17: no jump or branch that targets a block is emitted after that block
\* is sealed, and a loop header is sealed only after the jump that enters the
\* loop and the back-edge jump have both been emitted, also in nested loops
\* and if-else.
C17_SealedAfterPredecessors ==
    /\ \A i, j \in 1..Len(fb.log) :
          (i < j /\ fb.log[i].op = "seal" /\ IsTransfer(fb.log[j]))
              => fb.log[j].to # fb.log[i].blk
    /\ \A i \in 1..Len(fb.log) :
          (fb.log[i].op = "seal" /\ fb.log[i].blk \in Headers)
              => /\ JumpsTo(fb.log[i].blk, i, 1..(fb.log[i].blk - 1)) # {}
                 /\ JumpsTo(fb.log[i].blk, i, (fb.log[i].blk + 1)..Len(fb.blocks)) # {}

\* a finalized function with two loops, one of them jumping back to its
\* header from a block of a nested loop or if-else
C17_Witness ==
    /\ fb.finalized
    /\ Cardinality(Headers) >= 2
    /\ \E i \in 1..Len(fb.log) :
          /\ fb.log[i].op = "seal"
          /\ fb.log[i].blk \in Headers
          /\ JumpsTo(fb.log[i].blk, i, (fb.log[i].blk + 3)..Len(fb.blocks)) # {}

Returns == SelectSeq(fb.log, LAMBDA e : e.op = "return")

Switches == SelectSeq(fb.log, LAMBDA e : e.op = "switch")

MainDeclared(j) == <<"main">> \in DOMAIN j.funcs

MainDefined(j) == MainDeclared(j) /\ j.funcs[<<"main">>].defined

\* the last two instructions of a block are `v = iconst 0` and `return v`
EndsReturningZero(insts) ==
    /\ Len(insts) >= 2
    /\ insts[Len(insts)].op = "return"
    /\ insts[Len(insts) - 1].op = "iconst"
    /\ insts[Len(insts) - 1].imm = Imm(0, 0)
    /\ insts[Len(insts)].args = <<insts[Len(insts) - 1].res>>

C18_EntryFirst ==
    ncompile > 0 =>
        /\ Len(fb.log) >= 3
        /\ fb.log[1].op = "create" /\ fb.log[1].blk = 1
        /\ fb.log[2].op = "switch" /\ fb.log[2].blk = 1
        /\ fb.log[3].op = "seal" /\ fb.log[3].blk = 1

C18_ReturnLast ==
    /\ ~fb.finalized => Returns = <<>>
    /\ fb.finalized =>
          /\ todo = <<>>
          /\ Len(Returns) = 1
          /\ fb.log[Len(fb.log) - 2].op = "return"
          /\ Returns[1].blk = fb.cur
          /\ Switches[Len(Switches)].blk = fb.cur
          /\ EndsReturningZero(fb.blocks[fb.cur].insts)

C18_Step ==
    /\ (cpc = "lowering" /\ todo' # todo) => (todo # <<>> /\ todo' = Tail(todo))
    /\ (cpc = "lowering" /\ fb.cur # 0 /\ fb' # fb /\ todo' = todo) => fb'.cur = fb.cur
    /\ ((MainDeclared(jit') /\ ~MainDeclared(jit)) \/ (MainDefined(jit') /\ ~MainDefined(jit)))
          => (fb.finalized /\ cpc = "finalized" /\ fb' = fb)

C19_NestedWhileParses ==
    (src = NestedWhileSource /\ drv.pc # "main") =>
        /\ drv.some
        /\ Len(drv.tree) = 1
        /\ drv.tree[1].tag = "WhileBlock"
        /\ \E k \in 1..Len(drv.tree[1].body) : drv.tree[1].body[k].tag = "WhileBlock"

\* C20: a string literal is accepted only when its closing quote is the same
\* character as its opening quote, so "abc' is not a string literal.
C20_ClosingQuoteMatches ==
    (src = MixedQuoteSource /\ drv.pc # "main") =>
        ~(drv.some /\ drv.tree # <<>> /\ Within(drv.tree[1], {"StringLiteral"}))

Unimplemented == {"Array", "Object"}

\* the compile is at or past a statement that holds an Array or an Object
MetUnimplemented ==
    ncompile > 0 /\ Lowered >= 1 /\ Within(prog[Lowered], Unimplemented)

C21_Aborted ==
    MetUnimplemented =>
        /\ cpc = "panicked"
        /\ ~fb.finalized
        /\ Returns = <<>>
        /\ ncompile = 1 => ~MainDeclared(jit)
        /\ prog[Lowered].tag = "WhileBlock" => fb.blocks[fb.cur].insts = <<>>

C21_Step ==
    /\ (cpc = "lowering" /\ todo # <<>> /\ Head(todo).tag \in Unimplemented /\ todo' # todo)
          => (fb' = fb /\ jit' = jit /\ cpc' = "panicked")
    /\ cpc = "panicked" => UNCHANGED <<fb, jit, todo, cpc>>

\* C21: when translate_expr meets an Array or Object instruction the compile
\* aborts at once: no instruction after it in the sequence is lowered, and
\* no function main is declared, defined or finalized in the module.
C21_FailFast == []C21_Aborted /\ [][C21_Step]_vars

\* a compile has stopped at an Object with a statement left after it
C21_Witness ==
    /\ cpc = "panicked"
    /\ Lowered >= 1
    /\ prog[Lowered].tag = "Object"
    /\ todo # <<>>

\* an if-else statement is lowered by this step, and lowered to the end
IfElseLowered ==
    /\ cpc = "lowering" /\ todo # <<>> /\ Head(todo).tag = "IfElse"
    /\ cpc' = "lowering" /\ todo' = Tail(todo)

\* the positions of the log of f after position from that jump to block b
JumpsInto(f, from, b) ==
    {j \in (from + 1)..Len(f.log) : f.log[j].op = "jump" /\ f.log[j].to = b}

\* the block a jump of the log was emitted in ends with that jump, which
\* carries one argument: the result of the instruction before it
EndsPassingLast(f, j) ==
    /\ CountTerminators(f.blocks[f.log[j].blk].insts) = 1
    /\ OpAt(f.blocks[f.log[j].blk].insts, Len(f.blocks[f.log[j].blk].insts)) = "jump"
    /\ Len(f.blocks[f.log[j].blk].insts[Len(f.blocks[f.log[j].blk].insts)].args) = 1
    /\ Len(f.blocks[f.log[j].blk].insts) >= 2
    /\ f.blocks[f.log[j].blk].insts[Len(f.blocks[f.log[j].blk].insts)].args
          = <<f.blocks[f.log[j].blk].insts[Len(f.blocks[f.log[j].blk].insts) - 1].res>>

\* the block holds nothing but a zero constant and a jump
ZeroThenJump(insts) ==
    /\ Len(insts) = 2
    /\ insts[1].op = "iconst" /\ insts[1].imm = Imm(0, 0)
    /\ insts[2].op = "jump"

\* the blocks of the if-else this step lowers: merge is the block left
\* current, then and else the two blocks created before it
C22_Step ==
    IfElseLowered =>
        /\ Cardinality(JumpsInto(fb', Len(fb.log), fb'.cur)) = 2
        /\ \A j \in JumpsInto(fb', Len(fb.log), fb'.cur) :
              /\ EndsPassingLast(fb', j)
              /\ \A k \in (Len(fb.log) + 1)..Len(fb'.log) :
                    (fb'.log[k].op = "seal" /\ fb'.log[k].blk = fb'.cur) => k > j
        /\ fb'.blocks[fb'.cur].sealed = 1
        /\ Head(todo).then_body = <<>> => ZeroThenJump(fb'.blocks[fb'.cur - 2].insts)
        /\ Head(todo).else_body = <<>> => ZeroThenJump(fb'.blocks[fb'.cur - 1].insts)
        /\ fb'.blocks[fb'.cur].pval # 0
        /\ TranslateIfElse(Lowering(jit, fb), Head(todo).condition, Head(todo).then_body,
                           Head(todo).else_body).val = fb'.blocks[fb'.cur].pval

\* C22: in if-else lowering each of the then and else branches ends with
\* exactly one jump to merge carrying exactly one argument, the value of the
\* last statement lowered in the branch or an integer zero constant when the
\* body is empty; merge is sealed only after both jumps are emitted, and the
\* result is the first block parameter of merge.
C22_BranchesJumpToMerge == [][C22_Step]_vars

\* an if-else with a statement in one branch and an empty other branch has
\* been lowered
C22_Witness ==
    /\ cpc = "lowering"
    /\ Lowered >= 1
    /\ prog[Lowered].tag = "IfElse"
    /\ prog[Lowered].then_body # <<>>
    /\ prog[Lowered].else_body = <<>>
    /\ Cardinality(JumpsInto(fb, 0, fb.cur)) = 2

\* the call instructions of the function being built, as <<block, position>>
CallSites ==
    {bk \in UNION {{<<b, k>> : k \in 1..Len(fb.blocks[b].insts)} : b \in 1..Len(fb.blocks)} :
        fb.blocks[bk[1]].insts[bk[2]].op = "call"}

\* the instruction of a block before position k whose result is the value v
ProducedBy(insts, k, v, op, imm) ==
    \E p \in 1..(k - 1) : insts[p].res = v /\ insts[p].op = op /\ insts[p].imm = imm

\* the call a FunctionCall statement was lowered to is the last instruction
\* of the current block; its k-th argument, when the k-th argument of the
\* statement is an integral literal, is the constant emitted for it
CallOfStatement(call, insts) ==
    /\ insts # <<>>
    /\ insts[Len(insts)].op = "call"
    /\ Len(insts[Len(insts)].args) = Len(call.args)
    /\ \A i \in 1..Len(call.args) :
          (call.args[i].tag = "NumericLiteral" /\ IsIntegral(call.args[i].v))
              => ProducedBy(insts, Len(insts), insts[Len(insts)].args[i], "iconst",
                            AsI64(call.args[i].v))

\* C23: at every call site the synthesized signature has as many
\* pointer-width integer parameters as the call has lowered arguments and one
\* pointer-width integer result; the arguments are lowered left to right
\* before the call instruction is emitted, and the call receives the argument
\* values in that order.
C23_CallSiteSignature ==
    /\ \A bk \in CallSites :
          /\ fb.blocks[bk[1]].insts[bk[2]].sym \in DOMAIN jit.funcs
          /\ jit.funcs[fb.blocks[bk[1]].insts[bk[2]].sym].params
                = Len(fb.blocks[bk[1]].insts[bk[2]].args)
          /\ fb.vtypes[fb.blocks[bk[1]].insts[bk[2]].res] = PointerType
          /\ \A i \in 1..Len(fb.blocks[bk[1]].insts[bk[2]].args) :
                fb.blocks[bk[1]].insts[bk[2]].args[i] < fb.blocks[bk[1]].insts[bk[2]].res
    /\ (cpc = "lowering" /\ Lowered >= 1 /\ prog[Lowered].tag = "FunctionCall")
          => CallOfStatement(prog[Lowered], fb.blocks[fb.cur].insts)

\* a call with two arguments has been lowered
C23_Witness ==
    /\ cpc = "lowering"
    /\ Lowered >= 1
    /\ prog[Lowered].tag = "FunctionCall"
    /\ Len(prog[Lowered].args) = 2
    /\ CallSites # {}

\* C24: in the LLVM-backed build the instructions emitted for statement k
\* precede in the entry block those emitted for statement k+1, and the final
\* ret is the last instruction of the entry block, also when the program
\* holds two or more Variable declarations.
C24_EmittedInTraversalOrder ==
    /\ \A i, j \in 1..Len(drv.entry) : i < j => drv.entry[i].stmt <= drv.entry[j].stmt
    /\ (\E k \in 1..Len(drv.entry) : drv.entry[k].op = "ret")
          => drv.entry[Len(drv.entry)].op = "ret"

\* C25: the symbol table of a compilation holds only slots of the function
\* being compiled: in a second compile on the same JIT value, a
\* VariableReference to a name declared only during the first compile is
\* rejected, not resolved to the slot of the earlier function.
C25_TablePerCompile ==
    /\ (ncompile >= 2 /\ cpc = "lowering" /\ Lowered = 0) => jit.variables = <<>>
    /\ (/\ ncompile >= 2
        /\ cpc # "idle"
        /\ Lowered >= 1
        /\ prog[Lowered].tag = "VariableReference"
        /\ prog[Lowered].name \in DOMAIN jit.variables
        /\ \A j \in 1..(Lowered - 1) : ~Declares(prog[j], prog[Lowered].name))
          => /\ cpc = "panicked"
             /\ \A k \in 1..Len(fb.log) : fb.log[k].op # "ref"

\* the compiled main is about to execute a use_var
AtUseVar ==
    /\ run.pc = "running"
    /\ run.blk \in 1..Len(run.code)
    /\ run.ip \in 1..Len(run.code[run.blk].insts)
    /\ run.code[run.blk].insts[run.ip].op = "use_var"

\* C26: in every function the builder accepts, each read of a slot is
\* preceded by a write of that slot on every path from the entry block:
\* neither `let x = x` nor a variable first declared in a while body and read
\* after the loop leads to a read of a slot that was never written.
C26_ReadAfterWrite ==
    AtUseVar => run.code[run.blk].insts[run.ip].to \in DOMAIN run.slots

====
